---- MODULE Spec2Model ----
(***************************************************************************)
(* Model of tachi (instant-agents/tachi/src/main.rs): the `gen` command    *)
(* that loads a YAML agent specification, renders agent.py and writes the  *)
(* four project files, and of the chat loop of the generated cli.py.       *)
(*                                                                         *)
(* A file content is a sequence of text pieces; the rendered content is    *)
(* the concatenation of the pieces.  A path is a sequence of components.   *)
(***************************************************************************)
EXTENDS Integers, Sequences, FiniteSets, TLC

\* ------------------------------------------------------------------ bounds
MaxTools == 2   \* longest agent.tools sequence of an input document
MaxRuns  == 2   \* invocations of the command in one behaviour
MaxLines == 3   \* lines typed to the generated chat loop

\* ----------------------------------------------------------------- helpers
SeqsUpTo(S, n) == UNION {[1..k -> S] : k \in 0..n}

IsPrefix(s, t) == Len(s) <= Len(t) /\ \A i \in 1..Len(s) : s[i] = t[i]

\* --------------------------------------------------- the closed vocabulary
\* enum Tool { Search, Webpage }, enum Model { QwenCoder }
Tools  == {"Search", "Webpage"}
Models == {"QwenCoder"}

py_import_name(t) ==
    CASE t = "Search"  -> "DuckDuckGoSearchTool"
      [] t = "Webpage" -> "VisitWebpageTool"

py_instance(t) ==
    CASE t = "Search"  -> "DuckDuckGoSearchTool()"
      [] t = "Webpage" -> "VisitWebpageTool()"

model_id(m) ==
    CASE m = "QwenCoder" -> "Qwen/Qwen2.5-Coder-32B-Instruct"

\* serde: rename_all = "kebab-case" names the variants search, webpage and
\* qwen-coder; each alias repeats that name.  Matching is exact.
NoVariant == "<unknown variant>"

ParseTool_CaseFold(s) ==
    CASE s \in {"search", "Search"}   -> "Search"
      [] s \in {"webpage", "Webpage"} -> "Webpage"
      [] OTHER                        -> NoVariant

ParseTool(s) ==
    CASE s = "search"  -> "Search"
      [] s = "webpage" -> "Webpage"
      [] OTHER         -> NoVariant

ParseModel(s) ==
    CASE s = "qwen-coder" -> "QwenCoder"
      [] OTHER            -> NoVariant

\* ------------------------------------------------------- input documents
\* The strings an input document may carry.
NameStrings  == {"", "demo"}
ToolStrings  == {"search", "webpage", "Search", "calculator"}
ModelStrings == {"qwen-coder", "QwenCoder", "gpt-4"}

Opt(S, dflt) == {[present |-> FALSE, v |-> dflt]} \cup {[present |-> TRUE, v |-> x] : x \in S}

\* kind "unreadable": the input path cannot be read; "malformed": not YAML
\* of the expected shape; "mapping": a YAML mapping, with or without the
\* key agent and, under it, the keys name, tools and model.
BlankDoc(k) ==
    [kind |-> k, hasAgent |-> FALSE,
     name  |-> [present |-> FALSE, v |-> ""],
     tools |-> [present |-> FALSE, v |-> <<>>],
     model |-> [present |-> FALSE, v |-> ""]]

Docs ==
    {BlankDoc("unreadable"), BlankDoc("malformed"), BlankDoc("mapping")}
    \cup {[kind |-> "mapping", hasAgent |-> TRUE, name |-> n, tools |-> t, model |-> m] :
            n \in Opt(NameStrings, ""),
            t \in Opt(SeqsUpTo(ToolStrings, MaxTools), <<>>),
            m \in Opt(ModelStrings, "")}

\* The documents the runs of the command are given: those of Docs whose
\* tools are one of these sequences.
RunToolSeqs == {<<>>, <<"search">>, <<"webpage", "search">>, <<"calculator">>}

RunDocs == {d \in Docs : d.tools.v \in RunToolSeqs}

\* struct Spec { agent: Agent }, struct Agent { name, tools, model }
NoSpec == [agent |-> [name |-> "", tools |-> <<>>, model |-> NoVariant]]

MkSpec(n, ts, m) == [agent |-> [name |-> n, tools |-> ts, model |-> m]]

FirstBad(ss) ==
    IF \E i \in 1..Len(ss) : ParseTool(ss[i]) = NoVariant
    THEN CHOOSE i \in 1..Len(ss) :
            /\ ParseTool(ss[i]) = NoVariant
            /\ \A j \in 1..(i-1) : ParseTool(ss[j]) # NoVariant
    ELSE 0

Fail(e) == [ok |-> FALSE, err |-> e, spec |-> NoSpec]

\* fs::read_to_string followed by serde_yaml_ng::from_str::<Spec>.  The
\* derived deserializer walks the keys in document order (name, tools,
\* model), fails at the first value it cannot convert, and reports a
\* missing key once the mapping is exhausted.
Parse(doc) ==
    IF doc.kind = "unreadable" THEN Fail("IOFailure")
    ELSE IF doc.kind = "malformed" THEN Fail("MalformedInput")
    ELSE IF ~doc.hasAgent THEN Fail("MissingField")
    ELSE IF doc.tools.present /\ FirstBad(doc.tools.v) # 0 THEN Fail("UnknownTool")
    ELSE IF doc.model.present /\ ParseModel(doc.model.v) = NoVariant THEN Fail("UnknownModel")
    ELSE IF ~doc.name.present \/ ~doc.tools.present \/ ~doc.model.present
         THEN Fail("MissingField")
    ELSE [ok |-> TRUE, err |-> "",
          spec |-> MkSpec(doc.name.v,
                          [i \in 1..Len(doc.tools.v) |-> ParseTool(doc.tools.v[i])],
                          ParseModel(doc.model.v))]

ValidationErrors == {"MalformedInput", "MissingField", "UnknownTool", "UnknownModel"}

\* --------------------------------------------------------------- renderer
Sep == ", "
NL  == "\n"

\* Tera filter join(sep=", "): the elements with sep between neighbours.
RECURSIVE JoinFilter(_, _)
JoinFilter(xs, sep) ==
    IF xs = <<>> THEN <<>>
    ELSE IF Len(xs) = 1 THEN <<xs[1]>>
    ELSE <<xs[1], sep>> \o JoinFilter(Tail(xs), sep)

\* {% for t in xs %}{{ t }}{% if not loop.last %}, {% endif %}{% endfor %}
RECURSIVE ForLoop(_, _)
ForLoop(xs, i) ==
    IF i > Len(xs) THEN <<>>
    ELSE <<xs[i]>> \o (IF i # Len(xs) THEN <<Sep>> ELSE <<>>) \o ForLoop(xs, i + 1)

\* PY_AGENT_TEMPLATE, cut at its three insertion points.  The import line
\* and the tools list are cut into their symbols and separators.
AgentHead ==
    <<"import os\nfrom dotenv import load_dotenv\n",
      "from smolagents import ", "InferenceClientModel", Sep, "CodeAgent", Sep>>

AgentMid1 ==
    <<NL, "\n# Load environment variables from .env file\nload_dotenv()\n\ndef create_agent():\n    hf_token = os.getenv(\"HUGGINGFACEHUB_API_TOKEN\")\n    if not hf_token:\n        raise ValueError(...)\n\n    model = InferenceClientModel(\n        model_id=\"">>

AgentMid2 ==
    <<"\",\n        token=hf_token\n    )\n\n    agent = CodeAgent(\n        tools=", "[">>

AgentTail ==
    <<"]", ",\n        model=model,\n    )\n    return agent\n">>

Dedup(xs) ==
    LET keep == {i \in 1..Len(xs) : \A j \in 1..(i-1) : xs[j] # xs[i]}
        RECURSIVE Pick(_)
        Pick(i) == IF i > Len(xs) THEN <<>>
                   ELSE (IF i \in keep THEN <<xs[i]>> ELSE <<>>) \o Pick(i + 1)
    IN Pick(1)

tool_imports_Dedup(spec) ==
    Dedup([i \in 1..Len(spec.agent.tools) |-> py_import_name(spec.agent.tools[i])])

tool_imports(spec) ==
    [i \in 1..Len(spec.agent.tools) |-> py_import_name(spec.agent.tools[i])]

tool_instances(spec) ==
    [i \in 1..Len(spec.agent.tools) |-> py_instance(spec.agent.tools[i])]

PY_CLI_TEMPLATE == <<"#!/usr/bin/env python3\n... def main(): ... while True: ...\n">>
Reqs == <<"smolagents\npython-dotenv\nddgs\n">>
Env  == <<"# Put your Hugging Face token here\nHUGGINGFACEHUB_API_TOKEN=\n">>

FileNames_CliFirst == <<"cli.py", "agent.py", "requirements.txt", ".env.example">>

\* The four files main writes, in the order it writes them.
FileNames == <<"agent.py", "cli.py", "requirements.txt", ".env.example">>
NFiles    == Len(FileNames)

\* ------------------------------------------------------------------ state
VARIABLES
    pc,           \* position of main: idle, write, done, failed
    idx,          \* index in FileNames of the next write_file call
    spec,         \* let spec: Spec
    force, out,   \* the arguments --force and --out
    project_dir,  \* let project_dir
    agent_py,     \* let agent_py
    err, errpath, \* the error main returned ("" when none), the path it names
    disk, dirs,   \* the file system
    disk0, dirs0, \* the file system when the run started
    written,      \* names of the files this run has written, in order
    log,          \* every (force, out, spec, file, content) written so far
    completed,    \* project directories of the runs that exited with success
    runs,         \* invocations started
    doc,          \* the input document (loader specification)
    cli_pc,       \* position of the generated cli.py: off, init, read, exited
    input,        \* what the terminal still holds for input()
    consumed,     \* the input() outcomes so far, in order
    calls,        \* the arguments agent.run was called with, in order
    farewell,     \* Goodbye! was printed
    status        \* exit status of cli.py

gvars == <<pc, idx, spec, force, out, project_dir, agent_py, err, errpath,
           disk, dirs, disk0, dirs0, written, log, completed, runs>>
cvars == <<cli_pc, input, consumed, calls, farewell, status>>
vars  == <<gvars, doc, cvars>>

render_agent_py_Stamped(sp) ==
    AgentHead \o JoinFilter(tool_imports(sp), Sep)
      \o AgentMid1 \o <<model_id(sp.agent.model)>>
      \o AgentMid2 \o ForLoop(tool_instances(sp), 1) \o AgentTail
      \o <<"# generated by run ", ToString(runs)>>

\* fn render_agent_py: Tera::one_off(PY_AGENT_TEMPLATE, ctx, false)
render_agent_py(sp) ==
    AgentHead \o JoinFilter(tool_imports(sp), Sep)
      \o AgentMid1 \o <<model_id(sp.agent.model)>>
      \o AgentMid2 \o ForLoop(tool_instances(sp), 1) \o AgentTail

\* ------------------------------------------------------------ file system
\* disk maps each existing file path to its content; dirs is the set of
\* existing directories.
OutDirs  == {<<"out">>, <<"alt">>}
PriorDir == <<"out", "demo">>
OldContent == <<"older content">>

\* Path::join with a relative name of at most one component: joining ""
\* adds no component.
PathJoin(base, s) == IF s = "" THEN base ELSE Append(base, s)

\* the directory and each of its ancestors, as fs::create_dir_all creates
Ancestors(dir) == {SubSeq(dir, 1, k) : k \in 1..Len(dir)}

Exists(d, path) == path \in DOMAIN d

WriteResult(ok, d, ds, path) == [ok |-> ok, disk |-> d, dirs |-> ds, path |-> path]

write_file_NoGuard(out_dir, name, content, f, d, ds) ==
    WriteResult(TRUE, (Append(out_dir, name) :> content) @@ d,
                ds \cup Ancestors(out_dir), Append(out_dir, name))

write_file_SkipExisting(out_dir, name, content, f, d, ds) ==
    IF Exists(d, Append(out_dir, name))
    THEN WriteResult(f, d, ds \cup Ancestors(out_dir), Append(out_dir, name))
    ELSE WriteResult(TRUE, (Append(out_dir, name) :> content) @@ d,
                     ds \cup Ancestors(out_dir), Append(out_dir, name))

\* fn write_file(out_dir, name, content, force): the disk and directories
\* it leaves, and whether it returned Ok
write_file(out_dir, name, content, f, d, ds) ==
    LET ds2  == ds \cup Ancestors(out_dir)
        path == Append(out_dir, name)
    IN IF Exists(d, path) /\ ~f
       THEN WriteResult(FALSE, d, ds2, path)
       ELSE WriteResult(TRUE, (path :> content) @@ d, ds2, path)

Content(i) ==
    CASE i = 1 -> agent_py
      [] i = 2 -> PY_CLI_TEMPLATE
      [] i = 3 -> Reqs
      [] i = 4 -> Env

PriorDisk(S) == [p \in {Append(PriorDir, FileNames[i]) : i \in S} |-> OldContent]

CliIdle ==
    /\ cli_pc = "off" /\ input = <<>> /\ consumed = <<>> /\ calls = <<>>
    /\ farewell = FALSE /\ status = 0

GenIdle ==
    /\ pc = "idle" /\ idx = 1 /\ spec = NoSpec /\ force = FALSE
    /\ out = <<>> /\ project_dir = <<>> /\ agent_py = <<>>
    /\ err = "" /\ errpath = <<>> /\ written = <<>>

Init ==
    /\ GenIdle
    /\ \E S \in SUBSET (1..NFiles) :
          /\ disk = PriorDisk(S)
          /\ dirs = IF S = {} THEN {} ELSE Ancestors(PriorDir)
    /\ disk0 = disk /\ dirs0 = dirs
    /\ log = {} /\ completed = {} /\ runs = 0
    /\ doc = BlankDoc("unreadable")
    /\ CliIdle

GenStart_MkdirFirst ==
    /\ pc = "idle" /\ runs < MaxRuns
    /\ \E d \in RunDocs, o \in OutDirs, f \in BOOLEAN :
          LET r == Parse(d) IN
          /\ force' = f /\ out' = o
          /\ dirs' = dirs \cup Ancestors(o)
          /\ spec' = r.spec /\ err' = r.err
          /\ IF r.ok
             THEN /\ pc' = "write"
                  /\ project_dir' = PathJoin(o, r.spec.agent.name)
                  /\ agent_py' = render_agent_py(r.spec)
             ELSE /\ pc' = "failed"
                  /\ UNCHANGED <<project_dir, agent_py>>
    /\ idx' = 1 /\ written' = <<>> /\ errpath' = <<>>
    /\ disk0' = disk /\ dirs0' = dirs
    /\ runs' = runs + 1
    /\ UNCHANGED <<disk, log, completed, doc, cvars>>

\* main, lines 222-233: read the arguments and the input, parse it, name
\* the project directory and render agent.py.
GenStart ==
    /\ pc = "idle" /\ runs < MaxRuns
    /\ \E d \in RunDocs, o \in OutDirs, f \in BOOLEAN :
          LET r == Parse(d) IN
          /\ force' = f /\ out' = o
          /\ spec' = r.spec /\ err' = r.err
          /\ IF r.ok
             THEN /\ pc' = "write"
                  /\ project_dir' = PathJoin(o, r.spec.agent.name)
                  /\ agent_py' = render_agent_py(r.spec)
             ELSE /\ pc' = "failed"
                  /\ UNCHANGED <<project_dir, agent_py>>
    /\ idx' = 1 /\ written' = <<>> /\ errpath' = <<>>
    /\ disk0' = disk /\ dirs0' = dirs
    /\ runs' = runs + 1
    /\ UNCHANGED <<disk, dirs, log, completed, doc, cvars>>

\* main, lines 234-249: the next write_file call; after the fourth, the
\* confirmation message and Ok(()).
WriteStep ==
    /\ pc = "write"
    /\ LET r == write_file(project_dir, FileNames[idx], Content(idx), force, disk, dirs) IN
          /\ disk' = r.disk /\ dirs' = r.dirs
          /\ IF r.ok
             THEN /\ written' = Append(written, FileNames[idx])
                  /\ log' = log \cup {[force |-> force, out |-> out, spec |-> spec,
                                       file |-> FileNames[idx], content |-> Content(idx)]}
                  /\ pc' = IF idx = NFiles THEN "done" ELSE "write"
                  /\ idx' = IF idx = NFiles THEN idx ELSE idx + 1
                  /\ UNCHANGED <<err, errpath>>
             ELSE /\ pc' = "failed" /\ err' = "AlreadyExists" /\ errpath' = r.path
                  /\ UNCHANGED <<written, log, idx>>
    /\ UNCHANGED <<spec, force, out, project_dir, agent_py, disk0, dirs0,
                   completed, runs, doc, cvars>>

\* the process exits; a later invocation starts from its own arguments
Exit ==
    /\ pc \in {"done", "failed"}
    /\ pc' = "idle" /\ idx' = 1 /\ spec' = NoSpec /\ force' = FALSE
    /\ out' = <<>> /\ project_dir' = <<>> /\ agent_py' = <<>>
    /\ err' = "" /\ errpath' = <<>> /\ written' = <<>>
    /\ disk0' = disk /\ dirs0' = dirs
    /\ completed' = IF pc = "done" THEN completed \cup {project_dir} ELSE completed
    /\ UNCHANGED <<disk, dirs, log, runs, doc, cvars>>

Next == GenStart \/ WriteStep \/ Exit

Spec == Init /\ [][Next]_vars

TypeOK ==
    /\ pc \in {"idle", "write", "done", "failed", "load", "parsed", "rejected", "rendered"}
    /\ idx \in 1..NFiles
    /\ runs \in 0..MaxRuns
    /\ force \in BOOLEAN

\* ------------------------------------------------------ reading a content
FileOrder == <<"agent.py", "cli.py", "requirements.txt", ".env.example">>

Target(i) == Append(project_dir, FileOrder[i])

FirstIndex(c, tok, from) ==
    CHOOSE i \in from..Len(c) : c[i] = tok /\ \A j \in from..(i-1) : c[j] # tok

\* the pieces of the smolagents import line after the keyword import
ImportLineToks(c) ==
    LET a == FirstIndex(c, "from smolagents import ", 1)
        b == FirstIndex(c, NL, a)
    IN SubSeq(c, a + 1, b - 1)

\* the pieces between the brackets of tools=[...]
ToolsListToks(c) ==
    LET a == FirstIndex(c, "[", 1)
        b == FirstIndex(c, "]", a)
    IN SubSeq(c, a + 1, b - 1)

IsSymbol(t) == t # Sep

Symbols(toks) == SelectSeq(toks, IsSymbol)

\* the tool symbols follow the two the skeleton itself imports
ImportEntries(c) == LET sy == Symbols(ImportLineToks(c)) IN SubSeq(sy, 3, Len(sy))

InstEntries(c) == Symbols(ToolsListToks(c))

Rendered == agent_py # <<>>

Expected(i) ==
    CASE i = 1 -> render_agent_py(spec)
      [] i = 2 -> PY_CLI_TEMPLATE
      [] i = 3 -> Reqs
      [] i = 4 -> Env

\* index of the first target file that existed when the run started,
\* NFiles + 1 when none did
FirstExisting0 ==
    IF \E i \in 1..NFiles : Exists(disk0, Target(i))
    THEN CHOOSE i \in 1..NFiles :
            Exists(disk0, Target(i)) /\ \A j \in 1..(i-1) : ~Exists(disk0, Target(j))
    ELSE NFiles + 1

Valid == spec # NoSpec

\* ----------------------------------------------------------------- claims
\* C1: a run whose input the loader rejects (malformed, a missing field, an
\* unknown tool or model) fails having created no directory and written or
\* changed no file, whatever the force flag and the prior disk state.
C1_RejectedNoMutation ==
    (pc = "failed" /\ err \in ValidationErrors) =>
        /\ disk = disk0 /\ dirs = dirs0 /\ written = <<>>
        /\ spec = NoSpec

C1_Witness ==
    /\ pc = "failed" /\ err = "UnknownTool" /\ force
    /\ DOMAIN disk0 # {} /\ dirs0 # {}

\* C2: a run without --force never changes a file that existed when it
\* started; run again in a project directory where an earlier run succeeded,
\* it fails at agent.py with the already-exists error naming that path and
\* leaves the disk as it found it.
C2_NoForcePreserves ==
    /\ ~force => \A p \in DOMAIN disk0 : Exists(disk, p) /\ disk[p] = disk0[p]
    /\ (Valid /\ ~force /\ project_dir \in completed) =>
          /\ pc # "done" /\ written = <<>> /\ disk = disk0
          /\ pc = "failed" => (err = "AlreadyExists" /\ errpath = Target(1))

C2_Witness ==
    /\ pc = "failed" /\ err = "AlreadyExists" /\ ~force /\ Valid
    /\ project_dir \in completed
    /\ errpath = Append(project_dir, "agent.py")
    /\ \A i \in 1..NFiles : Exists(disk, Target(i)) /\ disk[Target(i)] # OldContent

\* C3: with --force a valid run never fails on an existing file, and when
\* it is done each of the four files holds the content rendered from the
\* run's specification.
C3_ForceReplacesAll ==
    (Valid /\ force) =>
        /\ pc # "failed" /\ err = ""
        /\ pc = "done" =>
              \A i \in 1..NFiles : Exists(disk, Target(i)) /\ disk[Target(i)] = Expected(i)

C3_Witness ==
    /\ Valid /\ force /\ pc = "done"
    /\ \E i, j \in 1..NFiles :
          /\ Exists(disk0, Target(i)) /\ disk0[Target(i)] # disk[Target(i)]
          /\ ~Exists(disk0, Target(j))

\* C4: the tool entries of the import line and of the tools list of the
\* rendered agent.py are, position by position, the import symbols and the
\* instantiation expressions of spec.agent.tools.
C4_OrderPreserved ==
    Rendered =>
        LET ts == spec.agent.tools IN
        /\ Len(ImportEntries(agent_py)) = Len(ts)
        /\ Len(InstEntries(agent_py)) = Len(ts)
        /\ \A i \in 1..Len(ts) :
              /\ ImportEntries(agent_py)[i] = py_import_name(ts[i])
              /\ InstEntries(agent_py)[i] = py_instance(ts[i])

C4_Witness ==
    /\ Rendered /\ Len(spec.agent.tools) = 2
    /\ spec.agent.tools[1] = spec.agent.tools[2]
    /\ Len(ImportEntries(agent_py)) = 2

\* C5: in the rendered import line no ", " is left without a symbol after
\* it, and for an empty tools sequence the tools list is rendered as [].
NoDanglingSep(toks) ==
    \A i \in 1..Len(toks) : toks[i] = Sep => (i < Len(toks) /\ toks[i + 1] # Sep)

C5_NoTrailingSeparator ==
    Rendered =>
        /\ NoDanglingSep(ImportLineToks(agent_py))
        /\ spec.agent.tools = <<>> => ToolsListToks(agent_py) = <<>>

\* C7: a parsed specification has a non-empty agent.name, and the project
\* directory is not the output directory itself.
C7_NameNonEmpty ==
    (Valid /\ pc \in {"write", "done"}) =>
        (spec.agent.name # "" /\ project_dir # out)

\* C8: whatever two runs wrote for the same file from equal specifications
\* is the same content, whatever their --force and --out arguments and the
\* disk they found; cli.py, requirements.txt and .env.example are the same
\* for every specification.
C8_RenderDeterministic ==
    \A e1, e2 \in log :
        /\ (e1.spec = e2.spec /\ e1.file = e2.file) => e1.content = e2.content
        /\ (e1.file = e2.file /\ e1.file # "agent.py") => e1.content = e2.content

C8_Witness ==
    \E e1, e2 \in log :
        /\ e1.spec = e2.spec /\ e1.file = "agent.py" /\ e2.file = "agent.py"
        /\ e1.force # e2.force /\ e1.out # e2.out

\* C9: without --force the files are written in the order agent.py, cli.py,
\* requirements.txt, .env.example up to the first one that already existed;
\* the run fails there and leaves that file and the later ones as they
\* were, and it succeeds exactly when none of the four existed.
C9_PrefixWritten ==
    (Valid /\ ~force) =>
        /\ IsPrefix(written, FileOrder)
        /\ Len(written) < FirstExisting0
        /\ \A i \in (Len(written) + 1)..NFiles :
              /\ Exists(disk, Target(i)) <=> Exists(disk0, Target(i))
              /\ Exists(disk, Target(i)) => disk[Target(i)] = disk0[Target(i)]
        /\ \A i \in 1..Len(written) :
              Exists(disk, Target(i)) /\ disk[Target(i)] = Expected(i)
        /\ pc = "failed" =>
              /\ err = "AlreadyExists" /\ errpath = Target(FirstExisting0)
              /\ Len(written) = FirstExisting0 - 1
        /\ pc = "done" => (written = FileOrder /\ FirstExisting0 = NFiles + 1)
        /\ (pc \in {"done", "failed"} /\ FirstExisting0 = NFiles + 1) => pc = "done"

C9_Witness ==
    /\ Valid /\ ~force /\ pc = "failed"
    /\ written = <<"agent.py", "cli.py">>
    /\ errpath = Append(project_dir, "requirements.txt")

\* ------------------------------------------------- loader on its own
LoaderInit ==
    /\ pc = "load" /\ doc \in Docs /\ out \in OutDirs
    /\ idx = 1 /\ spec = NoSpec /\ force = FALSE
    /\ project_dir = <<>> /\ agent_py = <<>>
    /\ err = "" /\ errpath = <<>> /\ written = <<>>
    /\ disk = PriorDisk({}) /\ dirs = {} /\ disk0 = disk /\ dirs0 = dirs
    /\ log = {} /\ completed = {} /\ runs = 0
    /\ CliIdle

\* main, lines 225-227, applied to doc
LoaderParse ==
    /\ pc = "load"
    /\ LET r == Parse(doc) IN
          /\ spec' = r.spec /\ err' = r.err
          /\ pc' = IF r.ok THEN "parsed" ELSE "rejected"
    /\ UNCHANGED <<idx, force, out, project_dir, agent_py, errpath, disk, dirs,
                   disk0, dirs0, written, log, completed, runs, doc, cvars>>

\* main, lines 230-233, applied to the parsed specification
LoaderRender ==
    /\ pc = "parsed"
    /\ project_dir' = PathJoin(out, spec.agent.name)
    /\ agent_py' = render_agent_py(spec)
    /\ pc' = "rendered"
    /\ UNCHANGED <<idx, spec, force, out, err, errpath, disk, dirs,
                   disk0, dirs0, written, log, completed, runs, doc, cvars>>

LoaderNext == LoaderParse \/ LoaderRender

LoaderSpec == LoaderInit /\ [][LoaderNext]_vars

\* C6: a document is parsed only if every string of agent.tools is exactly
\* search or webpage and agent.model is exactly qwen-coder; one other
\* string at any position rejects the document and leaves no
\* specification; each tool and model of a parsed specification is a
\* variant with its import symbol, instance expression or identifier.
AcceptedToolSpellings  == {"search", "webpage"}
AcceptedModelSpellings == {"qwen-coder"}

DocOutsideVocabulary ==
    /\ doc.kind = "mapping" /\ doc.hasAgent
    /\ \/ doc.tools.present /\ \E i \in 1..Len(doc.tools.v) :
                                  doc.tools.v[i] \notin AcceptedToolSpellings
       \/ doc.model.present /\ doc.model.v \notin AcceptedModelSpellings

C6_ClosedVocabulary ==
    /\ (pc # "load" /\ DocOutsideVocabulary) =>
          /\ pc = "rejected" /\ spec = NoSpec
          /\ err \in {"UnknownTool", "UnknownModel"}
    /\ pc \in {"parsed", "rendered"} =>
          /\ Len(spec.agent.tools) = Len(doc.tools.v)
          /\ \A i \in 1..Len(doc.tools.v) :
                /\ doc.tools.v[i] \in AcceptedToolSpellings
                /\ spec.agent.tools[i] \in Tools
                /\ (spec.agent.tools[i] = "Search") <=> (doc.tools.v[i] = "search")
                /\ py_import_name(spec.agent.tools[i])
                      \in {"DuckDuckGoSearchTool", "VisitWebpageTool"}
                /\ py_instance(spec.agent.tools[i])
                      \in {"DuckDuckGoSearchTool()", "VisitWebpageTool()"}
          /\ doc.model.v \in AcceptedModelSpellings
          /\ spec.agent.model \in Models
          /\ model_id(spec.agent.model) = "Qwen/Qwen2.5-Coder-32B-Instruct"

C6_Witness ==
    /\ pc = "rejected" /\ err = "UnknownTool" /\ spec = NoSpec
    /\ doc.tools.v = <<"search", "Search">>
    /\ doc.model.present /\ doc.model.v = "qwen-coder" /\ doc.name.present

\* ------------------------------------------- the generated cli.py (main)
\* A line is a sequence of characters.
Space == " "
Whitespace == {Space, "\t"}

\* str.lower on the characters the lines below use
LowerCh(c) ==
    CASE c = "E" -> "e" [] c = "X" -> "x" [] c = "I" -> "i" [] c = "T" -> "t"
      [] c = "Q" -> "q" [] c = "U" -> "u" [] OTHER -> c

Lower(s) == [i \in 1..Len(s) |-> LowerCh(s[i])]

RECURSIVE StripLeft(_)
StripLeft(s) ==
    IF s # <<>> /\ Head(s) \in Whitespace THEN StripLeft(Tail(s)) ELSE s

RECURSIVE StripRight(_)
StripRight(s) ==
    IF s # <<>> /\ s[Len(s)] \in Whitespace
    THEN StripRight(SubSeq(s, 1, Len(s) - 1)) ELSE s

\* str.strip
Strip(s) == StripRight(StripLeft(s))

ExitKeywords == {<<"e", "x", "i", "t">>, <<"q", "u", "i", "t">>, <<"q">>}

IsExitCommand_CaseSensitive(u) == u \in ExitKeywords

\* user_input.lower() in ["exit", "quit", "q"]
IsExitCommand(u) == Lower(u) \in ExitKeywords

Lines ==
    { <<"e", "x", "i", "t">>,
      <<Space, "E", "X", "I", "T", Space>>,
      <<"Q", "u", "i", "t">>,
      <<"q">>,
      <<"\t", "Q", Space>>,
      <<>>,
      <<Space, "\t">>,
      <<"h", "i">>,
      <<Space, "h", "i", Space>>,
      <<"e", "x", "i", "t", "s">>,
      <<"q", Space, "q">> }

\* what one input() call meets: a line, end of input, or Ctrl+C
Events ==
    {[kind |-> "line", text |-> l] : l \in Lines}
    \cup {[kind |-> k, text |-> <<>>] : k \in {"eof", "int"}}

CliInit ==
    /\ GenIdle
    /\ disk = PriorDisk({}) /\ dirs = {} /\ disk0 = disk /\ dirs0 = dirs
    /\ log = {} /\ completed = {} /\ runs = 0
    /\ doc = BlankDoc("unreadable")
    /\ cli_pc = "init" /\ input \in SeqsUpTo(Events, MaxLines)
    /\ consumed = <<>> /\ calls = <<>> /\ farewell = FALSE /\ status = 0

\* cli.py main, up to the loop: create_agent() returns or raises
CliStartup ==
    /\ cli_pc = "init"
    /\ \E ok \in BOOLEAN :
          IF ok THEN cli_pc' = "read" /\ status' = status
                ELSE cli_pc' = "exited" /\ status' = 1
    /\ UNCHANGED <<gvars, doc, input, consumed, calls, farewell>>

\* one iteration of while True; input() waits while the terminal is empty
CliIterate ==
    /\ cli_pc = "read" /\ input # <<>>
    /\ LET ev == Head(input)
           user_input == Strip(ev.text)
       IN /\ input' = Tail(input)
          /\ consumed' = Append(consumed, ev)
          /\ IF ev.kind \in {"eof", "int"} \/ IsExitCommand(user_input)
             THEN /\ farewell' = TRUE /\ cli_pc' = "exited"
                  /\ UNCHANGED <<calls, status>>
             ELSE IF user_input = <<>>
             THEN UNCHANGED <<cli_pc, calls, farewell, status>>
             ELSE /\ calls' = Append(calls, user_input)
                  /\ \E outcome \in {"returns", "raises", "interrupted"} :
                        CASE outcome = "returns" ->
                               UNCHANGED <<cli_pc, farewell, status>>
                          [] outcome = "raises" ->
                               cli_pc' = "exited" /\ status' = 1 /\ farewell' = farewell
                          [] outcome = "interrupted" ->
                               cli_pc' = "exited" /\ farewell' = TRUE /\ status' = status
    /\ UNCHANGED <<gvars, doc>>

CliNext == CliStartup \/ CliIterate

CliSpec == CliInit /\ [][CliNext]_vars

\* C10: agent.run is called exactly for the lines read whose trimmed text
\* is non-empty and is not exit, quit or q in any letter case, once each,
\* in order, with the trimmed text; after an empty line the loop goes on
\* reading; the first exit line, end of input or Ctrl+C while reading ends
\* the loop with the farewell and exit status 0, and nothing is read after.
NonBlank(s) == {i \in 1..Len(s) : s[i] \notin Whitespace}

Min(S) == CHOOSE x \in S : \A y \in S : x <= y
Max(S) == CHOOSE x \in S : \A y \in S : x >= y

Trimmed(s) ==
    IF NonBlank(s) = {} THEN <<>> ELSE SubSeq(s, Min(NonBlank(s)), Max(NonBlank(s)))

SameIgnoringCase(u, k) ==
    Len(u) = Len(k) /\ \A i \in 1..Len(u) : LowerCh(u[i]) = LowerCh(k[i])

IsExitLine(e) ==
    e.kind = "line" /\ \E k \in ExitKeywords : SameIgnoringCase(Trimmed(e.text), k)

IsEmptyLine(e) == e.kind = "line" /\ Trimmed(e.text) = <<>>

Dispatched(e) == e.kind = "line" /\ ~IsEmptyLine(e) /\ ~IsExitLine(e)

Terminating(e) == e.kind \in {"eof", "int"} \/ IsExitLine(e)

C10_ChatLoop ==
    LET d == SelectSeq(consumed, Dispatched)
        n == Len(consumed)
    IN /\ calls = [i \in 1..Len(d) |-> Trimmed(d[i].text)]
       /\ \A i \in 1..(n - 1) : ~Terminating(consumed[i])
       /\ (n > 0 /\ Terminating(consumed[n])) =>
             (cli_pc = "exited" /\ farewell /\ status = 0)
       /\ (n > 0 /\ IsEmptyLine(consumed[n])) => (cli_pc = "read" /\ ~farewell)
       /\ cli_pc = "read" => (~farewell /\ status = 0)

C10_Witness ==
    /\ cli_pc = "exited" /\ farewell /\ status = 0
    /\ Len(consumed) = 2 /\ input # <<>>
    /\ consumed[1].text = <<Space, "h", "i", Space>>
    /\ consumed[2].text = <<Space, "E", "X", "I", "T", Space>>
    /\ calls = << <<"h", "i">> >>

====
